---- MODULE Spec2Model ----
(***************************************************************************)
(* A model of the notebook descriptive_stats.ipynb.                        *)
(*                                                                         *)
(* Two layers are modelled.                                                *)
(*  - The library calls the cells make on a sample (np.mean, np.median,    *)
(*    stats.mode, np.unique, ndarray.std, DataFrame.describe's std row,    *)
(*    np.percentile, plt.hist) are operators on finite sequences of        *)
(*    integers, computed the way the libraries compute them.  Results that *)
(*    need not be integers are exact fractions <<numerator, denominator>>. *)
(*  - The kernel session: the name bindings, the cell about to run, and    *)
(*    the result each cell displayed.                                      *)
(***************************************************************************)
EXTENDS Integers, Sequences, FiniteSets

VARIABLES
    sample,   \* SpecStats: the array the statistical calls are applied to
    step,     \* SpecStats: index of the next statistical call
    res,      \* SpecStats: the values the calls returned so far
    env,      \* kernel: name -> value bound in the session namespace
    pc,       \* kernel: index of the next code cell of the top-to-bottom run
    status,   \* kernel: "running" | "stopped" | "done" | "reexecuted"
    ran,      \* kernel: code cell -> number of times it was executed
    out,      \* kernel: code cell -> what its first execution displayed
    redo,     \* kernel: the latest manual re-execution: cell and its result
    lib       \* kernel: what the files and bundled datasets hold

vars == <<sample, step, res, env, pc, status, ran, out, redo, lib>>
statVars == <<sample, step, res>>
kernelVars == <<env, pc, status, ran, out, redo, lib>>

(***************************************************************************)
(* Bounds of the model.                                                    *)
(***************************************************************************)
MaxLen == 4      \* longest generated sample
MaxVal == 3      \* largest generated sample value (the smallest is -1)

Vals == (0 - 1)..MaxVal

\* data = np.array([5, 5, 3, 4, 2, 5, 7, 8, 8, 1, 2])
ExampleData == <<5, 5, 3, 4, 2, 5, 7, 8, 8, 1, 2>>

Samples == (UNION {[1..n -> Vals] : n \in 1..MaxLen}) \cup {ExampleData}

(***************************************************************************)
(* Exact fractions.                                                        *)
(***************************************************************************)
Frac(n, d) == <<n, d>>
FracLeq(a, b) == a[1] * b[2] <= b[1] * a[2]
FracEq(a, b) == a[1] * b[2] = b[1] * a[2]
FracSub(a, b) == <<a[1] * b[2] - b[1] * a[2], a[2] * b[2]>>

(***************************************************************************)
(* Helpers on sequences.                                                   *)
(***************************************************************************)
RECURSIVE Sum(_)
Sum(s) == IF s = <<>> THEN 0 ELSE Head(s) + Sum(Tail(s))

RECURSIVE SumSq(_)
SumSq(s) == IF s = <<>> THEN 0 ELSE Head(s) * Head(s) + SumSq(Tail(s))

RECURSIVE Insert(_, _)
Insert(x, s) ==
    IF s = <<>> THEN <<x>>
    ELSE IF x <= Head(s) THEN <<x>> \o s
    ELSE <<Head(s)>> \o Insert(x, Tail(s))

\* np.sort / the partition np.median and np.percentile work on
RECURSIVE NpSort(_)
NpSort(s) == IF s = <<>> THEN <<>> ELSE Insert(Head(s), NpSort(Tail(s)))

\* ndarray.max() and ndarray.min()
RECURSIVE ArrMax(_)
ArrMax(s) ==
    IF Len(s) = 1 THEN s[1]
    ELSE LET m == ArrMax(Tail(s)) IN IF Head(s) > m THEN Head(s) ELSE m

RECURSIVE ArrMin(_)
ArrMin(s) ==
    IF Len(s) = 1 THEN s[1]
    ELSE LET m == ArrMin(Tail(s)) IN IF Head(s) < m THEN Head(s) ELSE m

(***************************************************************************)
(* np.mean(data), x1.mean(): the sum divided by the count.                 *)
(***************************************************************************)
NpMean(s) == Frac(Sum(s), Len(s))

(***************************************************************************)
(* np.median(data): the array is partitioned around its middle index       *)
(* n // 2; for an odd count the element there is returned, for an even     *)
(* count the mean of the elements at n // 2 - 1 and n // 2 (0-based).      *)
(***************************************************************************)
NpMedianOffByOne(s) ==
    LET n == Len(s)
        srt == NpSort(s)
        k == n \div 2
    IN IF n % 2 = 1 THEN Frac(srt[IF k = 0 THEN 1 ELSE k], 1)
       ELSE Frac(srt[k] + srt[k + 1], 2)

NpMedian(s) ==
    LET n == Len(s)
        srt == NpSort(s)
        k == n \div 2
    IN IF n % 2 = 1 THEN Frac(srt[k + 1], 1)
       ELSE Frac(srt[k] + srt[k + 1], 2)

(***************************************************************************)
(* np.unique(data, return_counts=True): sort, keep the first element of    *)
(* every run of equal values, and count the length of every run.           *)
(***************************************************************************)
RECURSIVE Runs(_)
Runs(srt) ==
    IF srt = <<>> THEN [values |-> <<>>, counts |-> <<>>]
    ELSE LET r == Runs(Tail(srt))
         IN IF r.values # <<>> /\ Head(r.values) = Head(srt)
            THEN [values |-> r.values,
                  counts |-> <<Head(r.counts) + 1>> \o Tail(r.counts)]
            ELSE [values |-> <<Head(srt)>> \o r.values,
                  counts |-> <<1>> \o r.counts]

NpUniqueUnsorted(s) == Runs(s)

NpUnique(s) == Runs(NpSort(s))

(***************************************************************************)
(* stats.mode(data)[0]: the value of the (values, counts) table with the   *)
(* largest count; of several, the first, which is the smallest.            *)
(***************************************************************************)
RECURSIVE ArgMax(_, _)
ArgMax(c, i) ==
    IF i = Len(c) THEN i
    ELSE LET j == ArgMax(c, i + 1) IN IF c[i] >= c[j] THEN i ELSE j

RECURSIVE ArgMin(_, _)
ArgMin(c, i) ==
    IF i = Len(c) THEN i
    ELSE LET j == ArgMin(c, i + 1) IN IF c[i] <= c[j] THEN i ELSE j

StatsModeLeastFrequent(s) ==
    LET u == NpUnique(s) IN u.values[ArgMin(u.counts, 1)]

StatsMode(s) ==
    LET u == NpUnique(s) IN u.values[ArgMax(u.counts, 1)]

(***************************************************************************)
(* The variance behind a standard deviation, as an exact fraction:         *)
(* sum((x_i - mean)^2) / (n - ddof).  With mean = Sum/n every deviation is *)
(* (n*x_i - Sum)/n, so the sum of squares is SumSqDev/n^2.  A zero         *)
(* denominator stands for NaN (pandas on a single row).                    *)
(***************************************************************************)
RECURSIVE SumSqDevFrom(_, _, _)
SumSqDevFrom(s, n, total) ==
    IF s = <<>> THEN 0
    ELSE (n * Head(s) - total) * (n * Head(s) - total)
         + SumSqDevFrom(Tail(s), n, total)

Variance(s, ddof) ==
    LET n == Len(s) IN Frac(SumSqDevFrom(s, n, Sum(s)), n * n * (n - ddof))

\* x1.std(), x2.std(): numpy.ndarray.std, whose default is ddof=0
NdArrayVar(s) == Variance(s, 0)

\* the 'std' row of df.describe(): pandas.Series.std, whose default is ddof=1
DescribeVar(s) == Variance(s, 1)

(***************************************************************************)
(* np.percentile(x, q) with the default linear interpolation: the virtual  *)
(* index (n-1)*q/100 splits into a whole part i and a fraction; the result *)
(* is srt[i] + fraction * (srt[i+1] - srt[i]) (0-based i).                 *)
(***************************************************************************)
NpPercentileNoSort(s, q) ==
    LET n == Len(s)
        i == ((n - 1) * q) \div 100
        r == ((n - 1) * q) % 100
    IN IF r = 0 THEN Frac(s[i + 1], 1)
       ELSE Frac((100 - r) * s[i + 1] + r * s[i + 2], 100)

NpPercentile(s, q) ==
    LET n == Len(s)
        srt == NpSort(s)
        i == ((n - 1) * q) \div 100
        r == ((n - 1) * q) % 100
    IN IF r = 0 THEN Frac(srt[i + 1], 1)
       ELSE Frac((100 - r) * srt[i + 1] + r * srt[i + 2], 100)

\* np.percentile(x, q=75) - np.percentile(x, q=25)
IQR(s) == FracSub(NpPercentile(s, 75), NpPercentile(s, 25))

(***************************************************************************)
(* plt.hist(data, bins=b), i.e. np.histogram with b equal-width bins:      *)
(* the outer edges are min and max (widened by 0.5 on each side when they  *)
(* coincide), a value x goes to bin floor((x - first) / (last - first) * b)*)
(* and the index b, reached by x = max only, is lowered to b - 1.  Edges   *)
(* are kept doubled so that the widened edges stay whole numbers.          *)
(***************************************************************************)
FirstEdge2(s) ==
    IF ArrMin(s) = ArrMax(s) THEN 2 * ArrMin(s) - 1 ELSE 2 * ArrMin(s)

LastEdge2(s) ==
    IF ArrMin(s) = ArrMax(s) THEN 2 * ArrMax(s) + 1 ELSE 2 * ArrMax(s)

BinIndexOpenRight(first2, last2, b, x) ==
    ((2 * x - first2) * b) \div (last2 - first2)

\* 0-based index of the bin of x, the outer edges given doubled
BinIndex(first2, last2, b, x) ==
    LET i == ((2 * x - first2) * b) \div (last2 - first2)
    IN IF i = b THEN b - 1 ELSE i

\* np.bincount(indices, minlength=b)
BinCount(s, b) ==
    LET first2 == FirstEdge2(s)
        last2 == LastEdge2(s)
        idx == [i \in 1..Len(s) |-> BinIndex(first2, last2, b, s[i])]
    IN [j \in 1..b |-> Cardinality({i \in 1..Len(s) : idx[i] = j - 1})]

\* np.linspace(first, last, b + 1), every edge an exact fraction
BinEdges(s, b) ==
    LET first2 == FirstEdge2(s)
        last2 == LastEdge2(s)
    IN [j \in 1..(b + 1) |-> Frac(first2 * b + (j - 1) * (last2 - first2), 2 * b)]

PltHist(s, b) == [counts |-> BinCount(s, b), edges |-> BinEdges(s, b)]

(***************************************************************************)
(* SpecStats: the statistical calls of the notebook, in the order the      *)
(* cells make them, applied to one array drawn from Samples.               *)
(***************************************************************************)
NotYet == <<0, 0>>

Res0 ==
    [mean |-> NotYet, median |-> NotYet, mode |-> <<>>,
     unique |-> [values |-> <<>>, counts |-> <<>>],
     max |-> <<>>, min |-> <<>>, var |-> NotYet,
     p25 |-> NotYet, p75 |-> NotYet, iqr |-> NotYet, describe_var |-> NotYet]

\* print(np.mean(data)), x1.mean()
CallMean ==
    /\ step = 1
    /\ res' = [res EXCEPT !.mean = NpMean(sample)]
    /\ step' = 2
    /\ UNCHANGED <<sample, kernelVars>>

\* print(np.median(data))
CallMedian ==
    /\ step = 2
    /\ res' = [res EXCEPT !.median = NpMedian(sample)]
    /\ step' = 3
    /\ UNCHANGED <<sample, kernelVars>>

\* print(stats.mode(data)[0])
CallMode ==
    /\ step = 3
    /\ res' = [res EXCEPT !.mode = <<StatsMode(sample)>>]
    /\ step' = 4
    /\ UNCHANGED <<sample, kernelVars>>

\* counts = np.unique(data, return_counts=True)
CallUnique ==
    /\ step = 4
    /\ res' = [res EXCEPT !.unique = NpUnique(sample)]
    /\ step' = 5
    /\ UNCHANGED <<sample, kernelVars>>

\* x1.max()
CallMax ==
    /\ step = 5
    /\ res' = [res EXCEPT !.max = <<ArrMax(sample)>>]
    /\ step' = 6
    /\ UNCHANGED <<sample, kernelVars>>

\* x1.min()
CallMin ==
    /\ step = 6
    /\ res' = [res EXCEPT !.min = <<ArrMin(sample)>>]
    /\ step' = 7
    /\ UNCHANGED <<sample, kernelVars>>

\* x1.std()
CallStd ==
    /\ step = 7
    /\ res' = [res EXCEPT !.var = NdArrayVar(sample)]
    /\ step' = 8
    /\ UNCHANGED <<sample, kernelVars>>

\* np.percentile(x1, q=75) - np.percentile(x1, q=25)
CallIQR ==
    /\ step = 8
    /\ res' = [res EXCEPT !.p25 = NpPercentile(sample, 25),
                          !.p75 = NpPercentile(sample, 75),
                          !.iqr = IQR(sample)]
    /\ step' = 9
    /\ UNCHANGED <<sample, kernelVars>>

\* df.describe(), the 'std' row of a column
CallDescribe ==
    /\ step = 9
    /\ res' = [res EXCEPT !.describe_var = DescribeVar(sample)]
    /\ step' = 10
    /\ UNCHANGED <<sample, kernelVars>>

StatsDone == step = 10

NextStats ==
    \/ CallMean
    \/ CallMedian
    \/ CallMode
    \/ CallUnique
    \/ CallMax
    \/ CallMin
    \/ CallStd
    \/ CallIQR
    \/ CallDescribe

(***************************************************************************)
(* The kernel session.  Values bound to names carry their kind.  Floats    *)
(* are kept in tenths (5.1 is 51), so that float -> int casts and          *)
(* int -> float promotions are not the identity.                           *)
(***************************************************************************)
BlobRows == 2    \* rows of the modelled make_blobs sample
IrisRows == 3    \* rows of the modelled Iris table
NSeeds == 2      \* distinct draws of an unseeded random call

\* the code cells, numbered top to bottom (the trailing empty cell is left out)
NCells == 42

Cells == 1..NCells

Modules ==
    {"stats", "make_blobs", "make_regression", "load_iris", "plt", "sns", "pd", "np"}

Names ==
    Modules \cup {"data", "counts", "X", "y", "fig", "ax", "c", "x1", "x2",
                  "df", "P", "T", "songs", "nums_sorted", "cypher"}

Unbound == [kind |-> "unbound"]
Module(n) == [kind |-> "module", val |-> n]
IntArr(v) == [kind |-> "array1d", dtype |-> "int64", val |-> v]
FloatArr(v) == [kind |-> "array1d", dtype |-> "float64", val |-> v]
FloatArr2(rows) == [kind |-> "array2d", dtype |-> "float64", val |-> rows]
\* np.linspace(lo, hi, num), the end points in hundredths
Linspace(lo, hi, num) == [kind |-> "linspace", val |-> <<lo, hi, num>>]
Noisy(dist, seed) == [kind |-> "noisy", val |-> <<dist, seed>>]
Bunch(t) == [kind |-> "bunch", val |-> t]
Frame(cols, rows) == [kind |-> "frame", val |-> [columns |-> cols, rows |-> rows]]

\* cells of a DataFrame column
FloatCell(v) == [t |-> "float", v |-> v]
IntCell(v) == [t |-> "int", v |-> v]
StrCell(s) == [t |-> "str", v |-> s]
NaNCell == [t |-> "nan", v |-> 0]

ToFloat(k) == 10 * k
\* float -> int truncates toward zero
AsTypeInt(f) == IF f >= 0 THEN f \div 10 ELSE 0 - ((0 - f) \div 10)

(***************************************************************************)
(* What the data sources hold.  make_blobs(random_state=42) is seeded and  *)
(* returns one fixed table.  load_iris() returns the same table on every   *)
(* call; the table is drawn once, on the first call.  The CSV file is      *)
(* present, missing or unreadable for the whole session.                   *)
(***************************************************************************)
\* <<x1, x2, cluster label>> around three centres, the coordinates in tenths
BlobPoint(i) ==
    CASE i % 3 = 1 -> <<0 - 25, 90, 0>>
      [] i % 3 = 2 -> <<46, 20, 1>>
      [] OTHER -> <<0 - 69, 0 - 68, 2>>

Blobs == [i \in 1..BlobRows |-> BlobPoint(i)]

\* <<sepal_len, sepal_wid, petal_len, petal_wid, target>>, lengths in tenths
IrisPoints == {<<51, 35, 14, 2, 0>>, <<70, 32, 47, 14, 1>>, <<63, 33, 60, 25, 2>>}
IrisTables == [1..IrisRows -> IrisPoints]

CsvStates == {"present", "missing", "unreadable"}
Seeds == 1..NSeeds

Column(rows, j) == [i \in 1..Len(rows) |-> rows[i][j]]
Columns(rows, js) == [i \in 1..Len(rows) |-> [j \in 1..Len(js) |-> rows[i][js[j]]]]
NCols(rows) == IF rows = <<>> THEN 0 ELSE Len(rows[1])

\* the sources a cell may load from for the first time
LibAfter(k, L) ==
    IF k = 33 /\ L.iris = <<>> THEN {[L EXCEPT !.iris = <<t>>] : t \in IrisTables}
    ELSE {L}

(***************************************************************************)
(* Results of executing a cell: the namespace after it, what it displayed, *)
(* and whether it completed.  A statement that raises leaves the bindings  *)
(* of the statements before it in place.                                   *)
(***************************************************************************)
Nothing == [kind |-> "none"]
Shown(what, args) == [kind |-> what, val |-> args]
Error(why) == [kind |-> "error", val |-> why]

Ok(e, shown) == [env |-> e, shown |-> shown, ok |-> TRUE]
Fail(e, why) == [env |-> e, shown |-> Error(why), ok |-> FALSE]

Has(e, ns) == \A n \in ns : e[n] # Unbound
IsArr1(v) == v.kind = "array1d"
IsArr2(v) == v.kind = "array2d"
IsFrame(v) == v.kind = "frame"
HasCol(v, name) == \E j \in 1..Len(v.val.columns) : v.val.columns[j] = name
HasCols(v, names) == \A n \in names : HasCol(v, n)
ColIndex(v, name) == CHOOSE j \in 1..Len(v.val.columns) : v.val.columns[j] = name
IsNumber(cell) == cell.t \in {"float", "int"}

\* from ... import ..., import ... as ...
Cell01(e) ==
    Ok([n \in Names |-> IF n \in Modules THEN Module(n) ELSE e[n]], Nothing)

\* data = np.array([5, 5, 3, 4, 2, 5, 7, 8, 8, 1, 2])
Cell02BindsOtherName(e) ==
    IF ~Has(e, {"np"}) THEN Fail(e, "NameError")
    ELSE Ok([e EXCEPT !["counts"] = IntArr(ExampleData)], Nothing)

Cell02(e) ==
    IF ~Has(e, {"np"}) THEN Fail(e, "NameError")
    ELSE Ok([e EXCEPT !["data"] = IntArr(ExampleData)], Nothing)

\* print(np.mean(data)); print(np.median(data)); print(stats.mode(data)[0])
Cell03(e) ==
    IF ~Has(e, {"np", "data"}) THEN Fail(e, "NameError")
    ELSE IF ~IsArr1(e["data"]) THEN Fail(e, "TypeError")
    ELSE IF ~Has(e, {"stats"}) THEN Fail(e, "NameError")
    ELSE LET d == e["data"].val
         IN Ok(e, Shown("print", <<NpMean(d), NpMedian(d), <<StatsMode(d)>>>>))

\* counts = np.unique(data, return_counts=True); counts
\* (an object that is no array counts as one value occurring once)
Cell04RebindsData(e) ==
    IF ~Has(e, {"np", "data"}) THEN Fail(e, "NameError")
    ELSE LET v == IF IsArr1(e["data"])
                  THEN Shown("unique", NpUnique(e["data"].val))
                  ELSE Shown("unique_object", <<e["data"], 1>>)
         IN Ok([e EXCEPT !["data"] = v], v)

Cell04(e) ==
    IF ~Has(e, {"np", "data"}) THEN Fail(e, "NameError")
    ELSE LET v == IF IsArr1(e["data"])
                  THEN Shown("unique", NpUnique(e["data"].val))
                  ELSE Shown("unique_object", <<e["data"], 1>>)
         IN Ok([e EXCEPT !["counts"] = v], v)

\* X = np.linspace(lo, hi, 40); y = <pdf>(X) + 0.05 * np.random.rand(40); scatter
DistCell(e, lo, hi, dist, seed) ==
    IF ~Has(e, {"np"}) THEN Fail(e, "NameError")
    ELSE LET e1 == [e EXCEPT !["X"] = Linspace(lo, hi, 40)]
         IN IF ~Has(e1, {"stats"}) THEN Fail(e1, "NameError")
            ELSE LET e2 == [e1 EXCEPT !["y"] = Noisy(dist, seed)]
                 IN IF ~Has(e2, {"plt"}) THEN Fail(e2, "NameError")
                    ELSE Ok(e2, Shown("scatter", <<e2["X"], e2["y"]>>))

Cell05(e, seed) == DistCell(e, 0 - 300, 300, "norm", seed)
Cell06(e, seed) == DistCell(e, 0, 100, "expon", seed)
Cell07(e, seed) == DistCell(e, 0 - 1, 101, "uniform", seed)
Cell08(e, seed) == DistCell(e, 0 - 500, 500, "norm(-2)+norm(2)", seed)

\* plt.hist(data, bins=b); plt.title(...)
HistCell(e, b) ==
    IF ~Has(e, {"plt", "data"}) THEN Fail(e, "NameError")
    ELSE IF ~IsArr1(e["data"]) THEN Fail(e, "TypeError")
    ELSE Ok(e, Shown("hist", <<PltHist(e["data"].val, b)>>))

\* the bins= argument of the four histogram cells
HistBins(k) ==
    CASE k = 9 -> 20
      [] k = 10 -> 10
      [] k = 11 -> 5
      [] k = 12 -> 3

\* fig, ax = plt.subplots(); plt.hist(data, bins=20)
Cell09(e) ==
    IF ~Has(e, {"plt"}) THEN Fail(e, "NameError")
    ELSE HistCell([e EXCEPT !["fig"] = Shown("figure", <<1, 1>>),
                            !["ax"] = Shown("axes", <<1, 1>>)], HistBins(9))

Cell10(e) == HistCell(e, HistBins(10))
Cell11(e) == HistCell(e, HistBins(11))
Cell12(e) == HistCell(e, HistBins(12))

\* X, c = make_blobs(random_state=42)
Cell13(e) ==
    IF ~Has(e, {"make_blobs"}) THEN Fail(e, "NameError")
    ELSE Ok([e EXCEPT !["X"] = FloatArr2(Columns(Blobs, <<1, 2>>)),
                      !["c"] = IntArr(Column(Blobs, 3))], Nothing)

\* plt.scatter(X[:, 0], X[:, 1], c=c)
Cell14(e) ==
    IF ~Has(e, {"plt", "X"}) THEN Fail(e, "NameError")
    ELSE IF ~(IsArr2(e["X"]) /\ NCols(e["X"].val) >= 2) THEN Fail(e, "IndexError")
    ELSE IF ~Has(e, {"c"}) THEN Fail(e, "NameError")
    ELSE IF ~(IsArr1(e["c"]) /\ Len(e["c"].val) = Len(e["X"].val))
         THEN Fail(e, "ValueError")
    ELSE Ok(e, Shown("scatter",
                     <<Column(e["X"].val, 1), Column(e["X"].val, 2), e["c"].val>>))

\* x1, x2 = X[:, 0], X[:, 1]
Cell15(e) ==
    IF ~Has(e, {"X"}) THEN Fail(e, "NameError")
    ELSE IF ~(IsArr2(e["X"]) /\ NCols(e["X"].val) >= 2) THEN Fail(e, "IndexError")
    ELSE Ok([e EXCEPT !["x1"] = FloatArr(Column(e["X"].val, 1)),
                      !["x2"] = FloatArr(Column(e["X"].val, 2))], Nothing)

\* the five prints of max, mean, min, std and interquartile range
Summary(x) == <<ArrMax(x), NpMean(x), ArrMin(x), NdArrayVar(x), IQR(x)>>

SummaryCell(e, name) ==
    IF ~Has(e, {name}) THEN Fail(e, "NameError")
    ELSE IF ~Has(e, {"np"}) THEN Fail(e, "NameError")
    ELSE Ok(e, Shown("print", Summary(e[name].val)))

Cell16(e) == SummaryCell(e, "x1")
Cell17(e) == SummaryCell(e, "x2")

\* plt.hist(x) with matplotlib's default of 10 bins
DefaultBins == 10

Cell18(e) ==
    IF ~Has(e, {"plt", "x1"}) THEN Fail(e, "NameError")
    ELSE Ok(e, Shown("hist", <<PltHist(e["x1"].val, DefaultBins)>>))

Cell19(e) ==
    IF ~Has(e, {"plt", "x2"}) THEN Fail(e, "NameError")
    ELSE Ok(e, Shown("hist", <<PltHist(e["x2"].val, DefaultBins)>>))

Cell20(e) ==
    IF ~Has(e, {"plt", "x1"}) THEN Fail(e, "NameError")
    ELSE IF ~Has(e, {"x2"}) THEN Fail(e, "NameError")
    ELSE Ok(e, Shown("hist", <<PltHist(e["x1"].val, DefaultBins),
                               PltHist(e["x2"].val, DefaultBins)>>))

\* pd.DataFrame(<2-D float array>, columns=cols): every cell a float
FrameOf(rows, cols) ==
    Frame(cols, [i \in 1..Len(rows) |-> [j \in 1..Len(cols) |-> FloatCell(rows[i][j])]])

\* np.concatenate([X, c.reshape(-1, 1)], axis=1) and np.hstack([X, y.reshape(-1, 1)]):
\* the integer labels are promoted to the floats of X
HStack(rows, labels) ==
    [i \in 1..Len(rows) |-> rows[i] \o <<ToFloat(labels[i])>>]

CanStack(e, a, b, ncols) ==
    /\ IsArr2(e[a])
    /\ IsArr1(e[b])
    /\ Len(e[a].val) = Len(e[b].val)
    /\ NCols(e[a].val) + 1 = ncols

\* df.head(): the first five rows
FrameHead(f) ==
    SubSeq(f.val.rows, 1, IF Len(f.val.rows) < 5 THEN Len(f.val.rows) ELSE 5)

\* df = pd.DataFrame(np.concatenate([X, c.reshape(-1, 1)], axis=1),
\*                   columns=['x1', 'x2', 'y']); df.head()
Cell21(e) ==
    IF ~Has(e, {"pd", "np", "X", "c"}) THEN Fail(e, "NameError")
    ELSE IF ~CanStack(e, "X", "c", 3) THEN Fail(e, "ValueError")
    ELSE LET f == FrameOf(HStack(e["X"].val, e["c"].val), <<"x1", "x2", "y">>)
         IN Ok([e EXCEPT !["df"] = f], Shown("head", FrameHead(f)))

\* Series.astype(int) of one cell
CastCell(cell) == IF cell.t = "float" THEN IntCell(AsTypeInt(cell.v)) ELSE cell

\* df[name] = df[name].astype(int)
AsTypeIntColumn(e, name) ==
    IF ~Has(e, {"df"}) THEN Fail(e, "NameError")
    ELSE IF ~(IsFrame(e["df"]) /\ HasCol(e["df"], name)) THEN Fail(e, "KeyError")
    ELSE LET f == e["df"]
             j == ColIndex(f, name)
         IN IF \E i \in 1..Len(f.val.rows) : ~IsNumber(f.val.rows[i][j])
            THEN Fail(e, "ValueError")
            ELSE Ok([e EXCEPT !["df"].val.rows =
                        [i \in 1..Len(f.val.rows) |->
                            [f.val.rows[i] EXCEPT ![j] = CastCell(f.val.rows[i][j])]]],
                    Nothing)

\* df['y'] = df['y'].astype(int)
Cell22(e) == AsTypeIntColumn(e, "y")

\* one column of df.describe(); the std row is pandas' Series.std()
DescribeColumn(x) ==
    [count |-> Len(x), mean |-> NpMean(x), var |-> DescribeVar(x), min |-> ArrMin(x),
     p25 |-> NpPercentile(x, 25), p50 |-> NpPercentile(x, 50),
     p75 |-> NpPercentile(x, 75), max |-> ArrMax(x)]

NumericColumns(f) ==
    {j \in 1..Len(f.val.columns) :
        \A i \in 1..Len(f.val.rows) : IsNumber(f.val.rows[i][j])}

\* df.describe()
Cell23(e) ==
    IF ~Has(e, {"df"}) THEN Fail(e, "NameError")
    ELSE IF ~IsFrame(e["df"]) THEN Fail(e, "AttributeError")
    ELSE LET f == e["df"]
         IN Ok(e, Shown("describe",
                        [j \in NumericColumns(f) |->
                            DescribeColumn([i \in 1..Len(f.val.rows) |->
                                               f.val.rows[i][j].v])]))

\* fig, ax = plt.subplots(nrows=2, ncols=2, ...); scatter, barh, two boxplots;
\* sns.boxplot(x1, orient='v')
Cell24(e) ==
    IF ~Has(e, {"plt"}) THEN Fail(e, "NameError")
    ELSE LET e1 == [e EXCEPT !["fig"] = Shown("figure", <<2, 2>>),
                             !["ax"] = Shown("axes", <<2, 2>>)]
         IN IF ~Has(e1, {"x1", "x2", "c"}) THEN Fail(e1, "NameError")
            ELSE IF Len(e1["x1"].val) # Len(e1["c"].val) THEN Fail(e1, "ValueError")
            ELSE IF ~Has(e1, {"sns"}) THEN Fail(e1, "NameError")
            ELSE Ok(e1, Shown("subplots", <<e1["x1"].val, e1["x2"].val, e1["c"].val>>))

\* P, T = make_regression(n_features=1, noise = 20), unseeded
Cell25(e, seed) ==
    IF ~Has(e, {"make_regression"}) THEN Fail(e, "NameError")
    ELSE Ok([e EXCEPT !["P"] = Shown("regression_X", seed),
                      !["T"] = Shown("regression_y", seed)], Nothing)

\* sns.regplot(P, T): the confidence band is bootstrapped with unseeded draws
Cell26(e, seed) ==
    IF ~Has(e, {"sns", "P", "T"}) THEN Fail(e, "NameError")
    ELSE Ok(e, Shown("regplot", <<e["P"], e["T"], seed>>))

\* songs = pd.read_csv('data/classic-rock/classic-rock-song-list.csv'); songs.head()
Cell27SwallowsError(e, L) ==
    IF ~Has(e, {"pd"}) THEN Fail(e, "NameError")
    ELSE LET s == Shown("songs_frame",
                        IF L.csv = "present" THEN "classic-rock-song-list.csv" ELSE "")
         IN Ok([e EXCEPT !["songs"] = s], Shown("head", s))

Cell27(e, L) ==
    IF ~Has(e, {"pd"}) THEN Fail(e, "NameError")
    ELSE IF L.csv = "missing" THEN Fail(e, "FileNotFoundError")
    ELSE IF L.csv = "unreadable" THEN Fail(e, "ParserError")
    ELSE LET s == Shown("songs_frame", "classic-rock-song-list.csv")
         IN Ok([e EXCEPT !["songs"] = s], Shown("head", s))

\* songs['PlayCount'].sort_values().hist()
Cell28(e) ==
    IF ~Has(e, {"songs"}) THEN Fail(e, "NameError")
    ELSE Ok(e, Shown("hist", <<e["songs"], "PlayCount">>))

\* nums_sorted = songs.groupby('ARTIST CLEAN').count()['Song Clean']
\*                    .sort_values(ascending=False)
Cell29(e) ==
    IF ~Has(e, {"songs"}) THEN Fail(e, "NameError")
    ELSE Ok([e EXCEPT !["nums_sorted"] =
                Shown("series", <<e["songs"], "songs per artist, descending">>)],
            Nothing)

\* plt.scatter(nums_sorted[:10].index, nums_sorted[:10])
Cell30(e) ==
    IF ~Has(e, {"plt", "nums_sorted"}) THEN Fail(e, "NameError")
    ELSE Ok(e, Shown("scatter", <<e["nums_sorted"], "first ten">>))

\* nums_sorted.skew()
Cell31(e) ==
    IF ~Has(e, {"nums_sorted"}) THEN Fail(e, "NameError")
    ELSE Ok(e, Shown("skew", <<e["nums_sorted"]>>))

\* nums_sorted.kurt()
Cell32(e) ==
    IF ~Has(e, {"nums_sorted"}) THEN Fail(e, "NameError")
    ELSE Ok(e, Shown("kurt", <<e["nums_sorted"]>>))

\* data = load_iris()
Cell33(e, L) ==
    IF ~Has(e, {"load_iris"}) THEN Fail(e, "NameError")
    ELSE Ok([e EXCEPT !["data"] =
                Bunch([data |-> Columns(L.iris[1], <<1, 2, 3, 4>>),
                       target |-> Column(L.iris[1], 5)])], Nothing)

\* X = data.data; y = data.target
\* (an ndarray has a .data buffer and no .target)
Cell34(e) ==
    IF ~Has(e, {"data"}) THEN Fail(e, "NameError")
    ELSE IF e["data"].kind = "bunch"
         THEN Ok([e EXCEPT !["X"] = FloatArr2(e["data"].val.data),
                           !["y"] = IntArr(e["data"].val.target)], Nothing)
         ELSE Fail([e EXCEPT !["X"] = Shown("memoryview", <<e["data"]>>)],
                   "AttributeError")

\* data.DESCR
Cell35(e) ==
    IF ~Has(e, {"data"}) THEN Fail(e, "NameError")
    ELSE IF e["data"].kind # "bunch" THEN Fail(e, "AttributeError")
    ELSE Ok(e, Shown("text", "iris DESCR"))

IrisColumns == <<"sepal_len", "sepal_wid", "petal_len", "petal_wid", "spec">>

\* df = pd.DataFrame(np.hstack([X, y.reshape(-1, 1)]), columns=[...])
Cell36(e) ==
    IF ~Has(e, {"pd", "np", "X", "y"}) THEN Fail(e, "NameError")
    ELSE IF ~CanStack(e, "X", "y", Len(IrisColumns)) THEN Fail(e, "ValueError")
    ELSE Ok([e EXCEPT !["df"] = FrameOf(HStack(e["X"].val, e["y"].val), IrisColumns)],
            Nothing)

\* df['spec'] = df['spec'].astype(int)
Cell37(e) == AsTypeIntColumn(e, "spec")

\* cypher = {0: 'setosa', 1: 'versicolor', 2: 'virginica'}: key k is entry k + 1
CypherTwoSpecies == Shown("dict", <<"setosa", "versicolor">>)
Cypher == Shown("dict", <<"setosa", "versicolor", "virginica">>)

\* Series.map(dict) of one cell: the value of the key, NaN where there is none
MapCell(cell, d) ==
    LET key == IF cell.t = "int" THEN cell.v
               ELSE IF cell.t = "float" /\ cell.v % 10 = 0 THEN cell.v \div 10
               ELSE 0 - 1
    IN IF key \in 0..(Len(d.val) - 1) THEN StrCell(d.val[key + 1]) ELSE NaNCell

\* cypher = {...}; df['spec'] = df['spec'].map(cypher)
Cell38(e) ==
    LET e1 == [e EXCEPT !["cypher"] = Cypher]
    IN IF ~Has(e1, {"df"}) THEN Fail(e1, "NameError")
       ELSE IF ~(IsFrame(e1["df"]) /\ HasCol(e1["df"], "spec")) THEN Fail(e1, "KeyError")
       ELSE LET f == e1["df"]
                j == ColIndex(f, "spec")
            IN Ok([e1 EXCEPT !["df"].val.rows =
                      [i \in 1..Len(f.val.rows) |->
                          [f.val.rows[i] EXCEPT
                              ![j] = MapCell(f.val.rows[i][j], e1["cypher"])]]],
                  Nothing)

\* a seaborn plot of df over the named columns
SnsCell(e, what, cols) ==
    IF ~Has(e, {"sns", "df"}) THEN Fail(e, "NameError")
    ELSE IF ~(IsFrame(e["df"]) /\ HasCols(e["df"], cols)) THEN Fail(e, "ValueError")
    ELSE Ok(e, Shown(what, <<e["df"]>>))

Cell39(e) ==
    SnsCell(e, "relplot", {"sepal_len", "sepal_wid", "spec", "petal_len", "petal_wid"})
Cell40(e) == SnsCell(e, "swarm", {"spec", "sepal_wid"})
Cell41(e) == SnsCell(e, "violin", {"petal_len", "spec"})
\* sns.catplot(kind='point'): the error bars are bootstrapped with unseeded draws
Cell42(e, seed) ==
    IF ~Has(e, {"sns", "df"}) THEN Fail(e, "NameError")
    ELSE IF ~(IsFrame(e["df"]) /\ HasCols(e["df"], {"spec", "sepal_wid"}))
         THEN Fail(e, "ValueError")
    ELSE Ok(e, Shown("point", <<e["df"], seed>>))

\* cell k executed in namespace e, with sources L and random draw seed
Exec(k, e, L, seed) ==
    CASE k = 1 -> Cell01(e)
      [] k = 2 -> Cell02(e)
      [] k = 3 -> Cell03(e)
      [] k = 4 -> Cell04(e)
      [] k = 5 -> Cell05(e, seed)
      [] k = 6 -> Cell06(e, seed)
      [] k = 7 -> Cell07(e, seed)
      [] k = 8 -> Cell08(e, seed)
      [] k = 9 -> Cell09(e)
      [] k = 10 -> Cell10(e)
      [] k = 11 -> Cell11(e)
      [] k = 12 -> Cell12(e)
      [] k = 13 -> Cell13(e)
      [] k = 14 -> Cell14(e)
      [] k = 15 -> Cell15(e)
      [] k = 16 -> Cell16(e)
      [] k = 17 -> Cell17(e)
      [] k = 18 -> Cell18(e)
      [] k = 19 -> Cell19(e)
      [] k = 20 -> Cell20(e)
      [] k = 21 -> Cell21(e)
      [] k = 22 -> Cell22(e)
      [] k = 23 -> Cell23(e)
      [] k = 24 -> Cell24(e)
      [] k = 25 -> Cell25(e, seed)
      [] k = 26 -> Cell26(e, seed)
      [] k = 27 -> Cell27(e, L)
      [] k = 28 -> Cell28(e)
      [] k = 29 -> Cell29(e)
      [] k = 30 -> Cell30(e)
      [] k = 31 -> Cell31(e)
      [] k = 32 -> Cell32(e)
      [] k = 33 -> Cell33(e, L)
      [] k = 34 -> Cell34(e)
      [] k = 35 -> Cell35(e)
      [] k = 36 -> Cell36(e)
      [] k = 37 -> Cell37(e)
      [] k = 38 -> Cell38(e)
      [] k = 39 -> Cell39(e)
      [] k = 40 -> Cell40(e)
      [] k = 41 -> Cell41(e)
      [] k = 42 -> Cell42(e, seed)

\* the cells with a random input: np.random.rand, the unseeded
\* make_regression, and seaborn's bootstrapped confidence intervals
RandomCells == {5, 6, 7, 8, 25, 26, 42}

(***************************************************************************)
(* The names each cell's source binds (or mutates), the names it reads,    *)
(* and among those the names it reads before any statement of the same     *)
(* cell has bound them.                                                    *)
(***************************************************************************)
Writes(k) ==
    CASE k = 1 -> Modules
      [] k = 2 -> {"data"}
      [] k = 4 -> {"counts"}
      [] k \in 5..8 -> {"X", "y"}
      [] k = 9 -> {"fig", "ax"}
      [] k = 13 -> {"X", "c"}
      [] k = 15 -> {"x1", "x2"}
      [] k = 21 -> {"df"}
      [] k = 22 -> {"df"}
      [] k = 24 -> {"fig", "ax"}
      [] k = 25 -> {"P", "T"}
      [] k = 27 -> {"songs"}
      [] k = 29 -> {"nums_sorted"}
      [] k = 33 -> {"data"}
      [] k = 34 -> {"X", "y"}
      [] k = 36 -> {"df"}
      [] k = 37 -> {"df"}
      [] k = 38 -> {"cypher", "df"}
      [] OTHER -> {}

ExposedReads(k) ==
    CASE k = 1 -> {}
      [] k = 2 -> {"np"}
      [] k = 3 -> {"np", "stats", "data"}
      [] k = 4 -> {"np", "data"}
      [] k \in 5..8 -> {"np", "stats", "plt"}
      [] k \in 9..12 -> {"plt", "data"}
      [] k = 13 -> {"make_blobs"}
      [] k = 14 -> {"plt", "X", "c"}
      [] k = 15 -> {"X"}
      [] k = 16 -> {"np", "x1"}
      [] k = 17 -> {"np", "x2"}
      [] k = 18 -> {"plt", "x1"}
      [] k = 19 -> {"plt", "x2"}
      [] k = 20 -> {"plt", "x1", "x2"}
      [] k = 21 -> {"pd", "np", "X", "c"}
      [] k = 22 -> {"df"}
      [] k = 23 -> {"df"}
      [] k = 24 -> {"plt", "sns", "x1", "x2", "c"}
      [] k = 25 -> {"make_regression"}
      [] k = 26 -> {"sns", "P", "T"}
      [] k = 27 -> {"pd"}
      [] k = 28 -> {"songs"}
      [] k = 29 -> {"songs"}
      [] k = 30 -> {"plt", "nums_sorted"}
      [] k = 31 -> {"nums_sorted"}
      [] k = 32 -> {"nums_sorted"}
      [] k = 33 -> {"load_iris"}
      [] k = 34 -> {"data"}
      [] k = 35 -> {"data"}
      [] k = 36 -> {"pd", "np", "X", "y"}
      [] k = 37 -> {"df"}
      [] k = 38 -> {"df"}
      [] k \in 39..42 -> {"sns", "df"}

\* names a cell reads only after a statement of the same cell has bound them
InnerReads(k) ==
    CASE k = 4 -> {"counts"}
      [] k \in 5..8 -> {"X", "y"}
      [] k = 21 -> {"df"}
      [] k = 24 -> {"ax"}
      [] k = 27 -> {"songs"}
      [] k = 38 -> {"cypher"}
      [] OTHER -> {}

Reads(k) == ExposedReads(k) \cup InnerReads(k)

\* the cells that read `data` for statistics or histograms
DataStatCells == {3, 4, 9, 10, 11, 12}

(***************************************************************************)
(* The session.                                                            *)
(***************************************************************************)
NoBindings == [n \in {} |-> Unbound]
NotRun == [shown |-> Nothing, bound |-> NoBindings, ok |-> FALSE]

\* what is kept of an execution: the display and the bindings made; the
\* draw of a cell with a random input is not kept
Result(k, r) ==
    IF k \in RandomCells
    THEN [shown |-> Shown("random", k), bound |-> NoBindings, ok |-> r.ok]
    ELSE [shown |-> r.shown, bound |-> [n \in Writes(k) |-> r.env[n]], ok |-> r.ok]

DrawsOf(k) == IF k \in RandomCells THEN Seeds ELSE {1}

KernelInit ==
    /\ env = [n \in Names |-> Unbound]
    /\ pc = 1
    /\ status = "running"
    /\ ran = [k \in Cells |-> 0]
    /\ out = [k \in Cells |-> NotRun]
    /\ redo = [cell |-> 0, result |-> NotRun]
    /\ lib \in {[csv |-> s, iris |-> <<>>] : s \in CsvStates}

StatsOff ==
    /\ sample = <<>>
    /\ step = 0
    /\ res = Res0

Init == KernelInit /\ StatsOff

\* "Run All": the next cell of the top-to-bottom run is executed; a cell
\* that raises stops the run
RunCell ==
    /\ status = "running"
    /\ pc \in Cells
    /\ \E L \in LibAfter(pc, lib), seed \in DrawsOf(pc) :
          LET r == Exec(pc, env, L, seed)
          IN /\ env' = r.env
             /\ lib' = L
             /\ out' = [out EXCEPT ![pc] = Result(pc, r)]
             /\ pc' = IF r.ok THEN pc + 1 ELSE pc
             /\ status' = IF ~r.ok THEN "stopped"
                          ELSE IF pc = NCells THEN "done" ELSE "running"
    /\ ran' = [ran EXCEPT ![pc] = @ + 1]
    /\ UNCHANGED <<redo, statVars>>

\* a cell the run has passed is executed again by hand; the model follows
\* the session up to this re-execution
ReExecute(k) ==
    /\ status \in {"running", "stopped", "done"}
    /\ k < pc
    /\ \E seed \in DrawsOf(k) :
          LET r == Exec(k, env, lib, seed)
          IN /\ env' = r.env
             /\ redo' = [cell |-> k, result |-> Result(k, r)]
    /\ ran' = [ran EXCEPT ![k] = @ + 1]
    /\ status' = "reexecuted"
    /\ UNCHANGED <<pc, out, lib, statVars>>

Next == RunCell

Spec == Init /\ [][Next]_vars

NextSession ==
    \/ RunCell
    \/ \E k \in Cells : ReExecute(k)

SpecSession == Init /\ [][NextSession]_vars

\* the statistical calls on one generated array; the session is not started
InitStats ==
    /\ sample \in Samples
    /\ step = 1
    /\ res = Res0
    /\ env = NoBindings
    /\ pc = 0
    /\ status = "off"
    /\ ran = <<>>
    /\ out = <<>>
    /\ redo = [cell |-> 0, result |-> NotRun]
    /\ lib = [csv |-> "present", iris |-> <<>>]

SpecStats == InitStats /\ [][NextStats]_vars

(***************************************************************************)
(* Properties of the statistical calls (SpecStats).                        *)
(***************************************************************************)
Range(s) == {s[i] : i \in 1..Len(s)}
CountOf(s, v) == Cardinality({i \in 1..Len(s) : s[i] = v})
CountBelow(s, v) == Cardinality({i \in 1..Len(s) : s[i] < v})
CountAtMost(s, v) == Cardinality({i \in 1..Len(s) : s[i] <= v})

\* the k-th element of the sorted sample (k = 1 the smallest), by rank
KthSorted(s, k) ==
    CHOOSE v \in Range(s) : CountBelow(s, v) < k /\ k <= CountAtMost(s, v)

\* C1: once np.median has returned, its value is the middle element of the
\* sorted sample for an odd count and the mean of the two middle elements
\* for an even count; for the example array it is the 6th sorted value, 5.
C1_MedianIsMiddle ==
    step > 2 =>
        LET n == Len(sample)
        IN /\ n % 2 = 1 => res.median = Frac(KthSorted(sample, (n + 1) \div 2), 1)
           /\ n % 2 = 0 =>
                 FracEq(res.median,
                        Frac(KthSorted(sample, n \div 2)
                             + KthSorted(sample, n \div 2 + 1), 2))
           /\ sample = ExampleData =>
                 /\ KthSorted(sample, 6) = 5
                 /\ res.median = Frac(5, 1)

C1_Witness ==
    /\ step > 2
    /\ sample = ExampleData
    /\ res.median = Frac(5, 1)

\* each value c + d occurs exactly as often as c - d; c2 is the doubled centre
SymmetricAbout(s, c2) == \A v \in Range(s) : CountOf(s, v) = CountOf(s, c2 - v)
Symmetric(s) == \E c2 \in (2 * ArrMin(s))..(2 * ArrMax(s)) : SymmetricAbout(s, c2)
\* one value has strictly the highest count
Unimodal(s) ==
    \E v \in Range(s) : \A w \in Range(s) \ {v} : CountOf(s, v) > CountOf(s, w)

\* C2: for a sample that is symmetric about a centre and unimodal, the mean,
\* the median and the mode returned are one value, the centre; for
\* S = {1, 2, 2, 3} all three are 2.
C2_SymmetricUnimodal ==
    (step > 3 /\ Symmetric(sample) /\ Unimodal(sample)) =>
        /\ FracEq(res.mean, res.median)
        /\ FracEq(res.median, Frac(res.mode[1], 1))
        /\ SymmetricAbout(sample, 2 * res.mode[1])
        /\ sample = <<1, 2, 2, 3>> =>
              /\ FracEq(res.mean, Frac(2, 1))
              /\ res.median = Frac(4, 2)
              /\ res.mode = <<2>>

C2_Witness ==
    /\ step > 3
    /\ sample = <<1, 2, 2, 3>>
    /\ Symmetric(sample)
    /\ Unimodal(sample)
    /\ res.mode = <<2>>

\* C3: the value stats.mode returned occurs in the sample, no value of the
\* np.unique table has a strictly greater count than it has, the table lists
\* every value with its number of occurrences, and its counts sum to the
\* sample size; for the example array the mode is 5 with count 3.
C3_ModeIsMostFrequent ==
    step > 4 =>
        LET u == res.unique
            m == res.mode[1]
        IN /\ m \in Range(sample)
           /\ Len(u.values) = Len(u.counts)
           /\ Range(u.values) = Range(sample)
           /\ \A i \in 1..Len(u.values) :
                 /\ u.counts[i] = CountOf(sample, u.values[i])
                 /\ u.counts[i] <= CountOf(sample, m)
           /\ \E i \in 1..Len(u.values) :
                 u.values[i] = m /\ \A j \in 1..Len(u.counts) : u.counts[j] <= u.counts[i]
           /\ Sum(u.counts) = Len(sample)
           /\ sample = ExampleData => (m = 5 /\ CountOf(sample, m) = 3)

C3_Witness ==
    /\ step > 4
    /\ sample = ExampleData
    /\ res.mode = <<5>>
    /\ res.unique.values = <<1, 2, 3, 4, 5, 7, 8>>
    /\ res.unique.counts = <<1, 2, 1, 1, 3, 1, 2>>

\* the square s2 of a population standard deviation of the sample:
\* n^2 * s2 = n * sum(x_i^2) - (sum(x_i))^2
IsPopulationVariance(s, s2) ==
    /\ s2[2] > 0
    /\ Len(s) * Len(s) * s2[1] = s2[2] * (Len(s) * SumSq(s) - Sum(s) * Sum(s))

\* C4: every standard deviation reported, the one of x.std() and the one of
\* the 'std' row of df.describe(), is the population standard deviation.
\* (stated for the arrays of at least two values, where both are numbers)
C4_EveryStdIsPopulation ==
    Len(sample) >= 2 =>
        /\ step > 7 => IsPopulationVariance(sample, res.var)
        /\ step > 9 => IsPopulationVariance(sample, res.describe_var)

ListedNames ==
    Modules \cup {"data", "X", "y", "c", "x1", "x2", "df", "P", "T", "songs",
                  "nums_sorted", "cypher"}

BoundByEarlierCell(n, k) == \E j \in 1..(k - 1) : n \in Writes(j) /\ ran[j] = 1

DataIsExample == pc \in DataStatCells => env["data"] = IntArr(ExampleData)

Untouched(k) ==
    \A j \in Cells : (j >= k /\ ran[j] >= 1) => Writes(j) \cap ExposedReads(k) = {}

\* C6 as claimed: re-executing a cell without a random input, at any point
\* after the cells above it have run, yields the result of its first run.
C6_ReexecutionSameResult ==
    (status = "reexecuted" /\ redo.cell \notin RandomCells) =>
        redo.result = out[redo.cell]

\* C6 as amended: data, X, y, df, fig and ax are each bound or mutated by
\* more than one cell; re-executing a cell without a random input yields the
\* result of its first run whenever no cell run since that first run began
\* binds or mutates a name the cell reads.
C6_ReexecutionSameIfUntouched ==
    /\ \A n \in {"data", "X", "y", "df", "fig", "ax"} :
          Cardinality({k \in Cells : n \in Writes(k)}) > 1
    /\ (status = "reexecuted" /\ redo.cell \notin RandomCells /\ Untouched(redo.cell)) =>
          redo.result = out[redo.cell]

C6_Witness ==
    /\ status = "reexecuted"
    /\ redo.cell = 23
    /\ pc = 36
    /\ Untouched(23)
    /\ redo.result.shown.kind = "describe"
    /\ redo.result = out[23]

\* C7: the run stops only at the read_csv cell and only when the file is
\* missing or unreadable, and never gets past that cell then; when it has
\* stopped, that cell ran once, no later cell ran, songs and nums_sorted are
\* unbound; the step that stops the run leaves every binding as it was, and
\* nothing changes afterwards.
C7_CsvFailureStopsRun ==
    /\ [](/\ status = "stopped" =>
                /\ pc = 27
                /\ lib.csv # "present"
                /\ ran[27] = 1
                /\ ~ENABLED RunCell
                /\ out[27].shown.kind = "error"
                /\ \A k \in 28..NCells : ran[k] = 0 /\ out[k] = NotRun
                /\ env["songs"] = Unbound
                /\ env["nums_sorted"] = Unbound
          /\ (lib.csv # "present" /\ pc >= 27) => (pc = 27 /\ status # "done"))
    /\ [][/\ (status' = "stopped" /\ status # "stopped") => env' = env
          /\ status = "stopped" => UNCHANGED vars]_vars

C7_Witness ==
    /\ status = "stopped"
    /\ pc = 27
    /\ lib.csv = "missing"
    /\ env["P"] # Unbound
    /\ env["songs"] = Unbound

\* the values of the example array that lie in the j-th of b bins over [1, 8]:
\* edge j <= x < edge j+1, the last bin closed on the right
InBin(x, j, b) ==
    /\ 7 * (j - 1) <= (x - 1) * b
    /\ IF j = b THEN (x - 1) * b <= 7 * j ELSE (x - 1) * b < 7 * j

HistOf(k) == out[k].shown.val[1]

\* C8: each histogram cell that ran has b equal-width bins over [1, 8], every
\* one of the 11 values lies in exactly one bin and is counted there, the
\* two 8s are in the last bin, the counts sum to 11, and the bins of the
\* 10-bin (5-bin) histogram are the merged adjacent pairs of the 20-bin
\* (10-bin) one.
C8_HistogramBins ==
    /\ \A k \in 9..12 :
          ran[k] = 1 =>
             LET b == HistBins(k)
                 h == HistOf(k)
             IN /\ out[k].shown.kind = "hist"
                /\ Len(h.counts) = b
                /\ Len(h.edges) = b + 1
                /\ h.edges[1] = Frac(2 * b, 2 * b)
                /\ h.edges[b + 1] = Frac(16 * b, 2 * b)
                /\ \A j \in 1..b :
                      /\ FracEq(FracSub(h.edges[j + 1], h.edges[j]), Frac(7, b))
                      /\ h.counts[j] =
                            Cardinality({i \in 1..11 : InBin(ExampleData[i], j, b)})
                /\ \A i \in 1..11 :
                      Cardinality({j \in 1..b : InBin(ExampleData[i], j, b)}) = 1
                /\ h.counts[b] >= 2
                /\ Sum(h.counts) = 11
    /\ ran[10] = 1 =>
          \A j \in 1..10 :
             HistOf(10).counts[j] = HistOf(9).counts[2 * j - 1] + HistOf(9).counts[2 * j]
    /\ ran[11] = 1 =>
          \A j \in 1..5 :
             HistOf(11).counts[j] = HistOf(10).counts[2 * j - 1] + HistOf(10).counts[2 * j]

C8_Witness ==
    /\ ran[12] = 1
    /\ HistOf(12).counts = <<4, 4, 3>>
    /\ HistOf(11).counts = <<3, 1, 4, 0, 3>>
    /\ Sum(HistOf(9).counts) = 11

SpeciesNames == {"setosa", "versicolor", "virginica"}

\* C9: once the three Iris frame cells have run, every row's 'spec' is one
\* of the three species names (none missing) and is the name of the row's
\* label; the frame has the rows of the Iris table, and the four feature
\* columns are what the frame was built with and what the table holds.
C9_SpeciesMapped ==
    (pc > 38 /\ status \in {"running", "done"}) =>
        LET f == env["df"].val
            f0 == out[36].bound["df"].val
            iris == lib.iris[1]
        IN /\ f.columns = IrisColumns
           /\ Len(f.rows) = Len(iris)
           /\ Len(f.rows) = Len(f0.rows)
           /\ \A i \in 1..Len(f.rows) :
                 /\ f.rows[i][5].t = "str"
                 /\ f.rows[i][5].v \in SpeciesNames
                 /\ f.rows[i][5].v =
                       (CASE iris[i][5] = 0 -> "setosa"
                          [] iris[i][5] = 1 -> "versicolor"
                          [] iris[i][5] = 2 -> "virginica")
                 /\ \A j \in 1..4 :
                       /\ f.rows[i][j] = f0.rows[i][j]
                       /\ f.rows[i][j] = FloatCell(iris[i][j])

C9_Witness ==
    /\ pc > 38
    /\ status = "running"
    /\ \E i \in 1..IrisRows : env["df"].val.rows[i][5] = StrCell("virginica")
    /\ \E i \in 1..IrisRows : env["df"].val.rows[i][5] = StrCell("setosa")
    /\ \E i \in 1..IrisRows : out[36].bound["df"].val.rows[i][5] = FloatCell(20)

====
